---- MODULE Spec2Model ----
(***************************************************************************)
(* Proof-of-stake kernel of eccoin (src/src/kernel.cpp).                   *)
(*                                                                         *)
(* The active chain is identified by its tip height: the block at height   *)
(* h of the active chain is the index entry [chain |-> "active",           *)
(* nHeight |-> h], its pprev is the entry one height below and             *)
(* chainActive.Next of it is the entry one height above, up to the tip.    *)
(* A uint256 is a sequence of 32 bytes (least significant first, the       *)
(* order in which it is serialized); an arith_uint256 is a sequence of     *)
(* 256 bits, most significant first.                                       *)
(***************************************************************************)
EXTENDS Integers, Sequences, FiniteSets, TLC

VARIABLES tip, ret, first

vars == <<tip, ret, first>>

(***************************************************************************)
(* Bounds of the model.                                                    *)
(***************************************************************************)
\* blocks that may be appended above genesis in the low window
MaxLowAppend == 7
\* blocks around the lookahead fork that the main specification visits
ForkMargin == 2
\* blocks appended past the fork height in the re-validation specification
MaxRevalAppend == 176

(***************************************************************************)
(* Program constants.                                                      *)
(***************************************************************************)
LookaheadForkHeight == 1504350
TargetForkHeight == 1504350
OffsetForkHeight == 1505775
ShortLookahead == 5
LongLookahead == 180
HeaderOffset == 80
PreShift == 20
HexWidth == 64
StakeMinAge == 5

(***************************************************************************)
(* uint256, serialization and the hash.                                    *)
(***************************************************************************)
Null256 == [i \in 1..32 |-> 0]

\* ss << (unsigned int) n : four bytes, least significant first
SerU32(n) == <<n % 256, (n \div 256) % 256, (n \div 65536) % 256, (n \div 16777216) % 256>>

\* the bytes ss[lo..hi] absorbed one after the other into the running state s
RECURSIVE Absorb(_, _, _, _)
Absorb(ss, lo, hi, s) ==
    IF lo > hi THEN s
    ELSE IF lo = hi THEN (s * 101 + ss[lo] + 1) % 16777213
    ELSE LET mid == (lo + hi) \div 2
             left == Absorb(ss, lo, mid, s)
         IN  \* the test makes TLC evaluate the left half first
             IF left >= 0 THEN Absorb(ss, mid + 1, hi, left) ELSE left

\* Hash(ss.begin(), ss.end()): a deterministic digest of the byte stream
Hash(ss) ==
    LET s == Absorb(ss, 1, Len(ss), 7)
    IN  [i \in 1..32 |-> ((((s \div 8) + 31 * i) * ((s % 127) + 2 * i + 1)) \div 7) % 256]

(***************************************************************************)
(* arith_uint256: 256 bits, most significant first.                        *)
(***************************************************************************)
ArithZero == [i \in 1..256 |-> 0]

\* the arith_uint256 with the value 2^k - 1
ArithOnes(k) == [i \in 1..256 |-> IF i > 256 - k THEN 1 ELSE 0]

\* arith_uint256(n) for a 64-bit n; the model keeps n below 2^31
ArithFromInt(n) ==
    [i \in 1..256 |-> IF i <= 225 THEN 0 ELSE (n \div (2 ^ (256 - i))) % 2]

\* UintToArith256(u): byte 32 of u is the most significant
UintToArith256(u) ==
    [i \in 1..256 |-> (u[32 - ((i - 1) \div 8)] \div (2 ^ (7 - ((i - 1) % 8)))) % 2]

\* a >> k
ShiftRight(a, k) == [i \in 1..256 |-> IF i <= k THEN 0 ELSE a[i - k]]

\* a > b
ArithGreater(a, b) ==
    \E i \in 1..256 : a[i] > b[i] /\ \A j \in 1..(i - 1) : a[j] = b[j]

HexDigits == <<"0", "1", "2", "3", "4", "5", "6", "7", "8", "9", "a", "b", "c", "d", "e", "f">>

\* a.GetHex(): the 64 hexadecimal digits of a, most significant first
GetHex(a) ==
    [j \in 1..HexWidth |->
        HexDigits[1 + 8 * a[4 * j - 3] + 4 * a[4 * j - 2] + 2 * a[4 * j - 1] + a[4 * j]]]

\* std::count(str.begin(), str.end(), c)
CountChar(str, c) == Cardinality({j \in 1..Len(str) : str[j] = c})

(***************************************************************************)
(* The block index and the active chain.                                   *)
(***************************************************************************)
NullIndex == [chain |-> "null", nHeight |-> 0]

ActiveIndex(h) == [chain |-> "active", nHeight |-> h]

\* a block that is indexed but lies on a side branch forking off height h-1
SideIndex(h) == [chain |-> "side", nHeight |-> h]

\* the hash of a block no index entry exists for
UnindexedHash == [chain |-> "unindexed", nHeight |-> 0]

\* LookupBlockIndex(hash): the entry of the block, or null
LookupBlockIndex(hash, t) ==
    IF hash.chain = "active" /\ hash.nHeight <= t THEN hash
    ELSE IF hash.chain = "side" /\ hash.nHeight <= t + 1 THEN hash
    ELSE NullIndex

\* pindex->pprev
pprev(pindex) ==
    IF pindex.chain \in {"active", "side"} /\ pindex.nHeight > 0
    THEN ActiveIndex(pindex.nHeight - 1)
    ELSE NullIndex

\* chainActive.Next(pindex)
ChainNext(pindex, t) ==
    IF pindex.chain = "active" /\ pindex.nHeight < t
    THEN ActiveIndex(pindex.nHeight + 1)
    ELSE NullIndex

ChainTag(pindex) == IF pindex.chain = "active" THEN 0 ELSE 1

\* pindex->nStakeModifier, as stored on the index entry
nStakeModifierOf(pindex) ==
    IF pindex.nHeight < 3 THEN Null256
    ELSE Hash(SerU32(pindex.nHeight) \o <<1, ChainTag(pindex)>>)

\* pindex->hashProofOfStake, as stored on the index entry
hashProofOfStakeOf(pindex) ==
    Hash(SerU32(pindex.nHeight) \o <<2, ChainTag(pindex)>>)

\* the six fields streamed into the modifier hash, anchored at pindex
ModifierStream(pindex) ==
    nStakeModifierOf(pindex) \o hashProofOfStakeOf(pindex)
    \o nStakeModifierOf(pprev(pindex)) \o hashProofOfStakeOf(pprev(pindex))
    \o nStakeModifierOf(pprev(pprev(pindex))) \o hashProofOfStakeOf(pprev(pprev(pindex)))

\* what a read through a null pointer can leave in a uint256
Garbage256 == {Null256, [i \in 1..32 |-> 255]}

(***************************************************************************)
(* GetKernelStakeModifier                                                  *)
(***************************************************************************)
\* variant: the fork test excludes the fork height itself
BlocksToGoStrict(tipHeight) ==
    IF tipHeight > LookaheadForkHeight THEN LongLookahead ELSE ShortLookahead

\* variant: a lookahead of a single block before the fork
BlocksToGoShort(tipHeight) ==
    IF tipHeight >= LookaheadForkHeight THEN LongLookahead ELSE 1

\* int blocksToGo = 5; if (Tip()->nHeight >= 1504350) blocksToGo = 180;
BlocksToGo(tipHeight) ==
    IF tipHeight >= LookaheadForkHeight THEN LongLookahead ELSE ShortLookahead

\* one evaluation of the loop
\*   while (Next(pindex) && blocksToGo > 0) { pindex = Next(pindex); blocksToGo-- }
\* from the loop state w: the body when the condition holds, else the exit
WalkStep(w, t) ==
    IF ChainNext(w.pindex, t) # NullIndex /\ w.blocksToGo > 0
    THEN [pindex |-> ChainNext(w.pindex, t), blocksToGo |-> w.blocksToGo - 1]
    ELSE w

\* k evaluations of the loop in a row
RECURSIVE WalkTimes(_, _, _)
WalkTimes(w, k, t) ==
    IF k <= 0 THEN w
    ELSE IF k = 1 THEN WalkStep(w, t)
    ELSE LET half == WalkTimes(w, k \div 2, t)
         IN  \* the test makes TLC evaluate the first half first
             IF half.blocksToGo >= 0 THEN WalkTimes(half, k - (k \div 2), t) ELSE half

\* the loop run to its exit: blocksToGo decreases in every iteration, so the
\* exit is reached within blocksToGo evaluations
Walk(pindex, blocksToGo, t) ==
    WalkTimes([pindex |-> pindex, blocksToGo |-> blocksToGo], blocksToGo, t)

\* variant: one missing successor is tolerated
RanOutMutant(w) == w.blocksToGo > 1

\* if (blocksToGo > 0) return false;  too few successors
RanOut(w) == w.blocksToGo > 0

\* The possible outcomes of GetKernelStakeModifier(hashBlockFrom, nStakeModifier)
\* with the active tip at height t.
GetKernelStakeModifier(hashBlockFrom, t) ==
    LET pindex0 == LookupBlockIndex(hashBlockFrom, t)
        w == Walk(pindex0, BlocksToGo(t), t)
        base == [returned |-> TRUE, ok |-> FALSE, err |-> "NotIndexed",
                 nStakeModifier |-> Null256, pindex |-> NullIndex,
                 blocksToGo |-> BlocksToGo(t), hashed |-> FALSE]
    IN  IF pindex0 = NullIndex THEN {base}
        ELSE IF RanOut(w)
        THEN {[base EXCEPT !.err = "InsufficientDepth", !.pindex = w.pindex,
                           !.blocksToGo = w.blocksToGo]}
        ELSE IF pprev(w.pindex) = NullIndex \/ pprev(pprev(w.pindex)) = NullIndex
        THEN \* pindex->pprev->... read through a null pointer
             {[base EXCEPT !.returned = FALSE, !.err = "NullDereference",
                           !.pindex = w.pindex, !.blocksToGo = 0, !.hashed = TRUE]}
             \cup {[base EXCEPT !.ok = TRUE, !.err = "None", !.nStakeModifier = g,
                                !.pindex = w.pindex, !.blocksToGo = 0, !.hashed = TRUE]
                   : g \in Garbage256}
        ELSE {[base EXCEPT !.ok = TRUE, !.err = "None",
                           !.nStakeModifier = Hash(ModifierStream(w.pindex)),
                           !.pindex = w.pindex, !.blocksToGo = 0, !.hashed = TRUE]}

(***************************************************************************)
(* ComputeNextStakeModifier                                                *)
(***************************************************************************)
\* A transaction as ComputeNextStakeModifier and CheckProofOfStake see it:
\* kind is "null", "coinbase" or "coinstake"; found is the result of
\* GetTransaction for vin[0].prevout.hash, blockHashOfTx the block it reports;
\* readOk is the result of ReadBlockFromDisk for that block.
NullTx == [kind |-> "null", found |-> FALSE, blockHashOfTx |-> UnindexedHash, readOk |-> FALSE]

CoinBaseTx == [kind |-> "coinbase", found |-> FALSE, blockHashOfTx |-> UnindexedHash, readOk |-> FALSE]

CoinStakeTx(found, blockHashOfTx, readOk) ==
    [kind |-> "coinstake", found |-> found, blockHashOfTx |-> blockHashOfTx, readOk |-> readOk]

\* variant: a great-grandparent is required as well
HasHistoryDeeper(pindexPrev) ==
    /\ pprev(pindexPrev) # NullIndex
    /\ pprev(pprev(pindexPrev)) # NullIndex
    /\ pprev(pprev(pprev(pindexPrev))) # NullIndex

\* if (pindexPrev->pprev && pindexPrev->pprev->pprev)
HasHistory(pindexPrev) ==
    /\ pprev(pindexPrev) # NullIndex
    /\ pprev(pprev(pindexPrev)) # NullIndex

\* The possible outcomes of ComputeNextStakeModifier(pindexPrev, tx, nStakeModifier)
\* with the active tip at height t.
ComputeNextStakeModifier(pindexPrev, tx, t) ==
    LET base == [returned |-> TRUE, ok |-> FALSE, err |-> "None", nStakeModifier |-> Null256]
    IN  IF tx.kind = "null"
        THEN IF pindexPrev = NullIndex
             THEN {[base EXCEPT !.ok = TRUE]}
             ELSE {[base EXCEPT !.err = "InvalidGenesisState"]}
        ELSE IF tx.kind = "coinbase"
        THEN IF pindexPrev = NullIndex
             THEN \* pindexPrev->pprev read through the null pointer
                  {[base EXCEPT !.returned = FALSE, !.err = "NullDereference"]}
                  \cup {[base EXCEPT !.ok = TRUE, !.nStakeModifier = g] : g \in Garbage256}
             ELSE IF HasHistory(pindexPrev)
             THEN {[base EXCEPT !.ok = TRUE,
                                !.nStakeModifier = Hash(ModifierStream(pindexPrev))]}
             ELSE {[base EXCEPT !.ok = TRUE]}
        ELSE IF ~tx.found
        THEN {[base EXCEPT !.err = "PrevTxNotFound"]}
        ELSE IF ~tx.readOk
        THEN {[base EXCEPT !.err = "ReadBlockFailed"]}
        ELSE {[returned |-> r.returned, ok |-> r.ok,
               err |-> IF r.ok THEN "None"
                       ELSE IF r.returned THEN "ModifierUnavailable" ELSE r.err,
               nStakeModifier |-> r.nStakeModifier]
              : r \in GetKernelStakeModifier(tx.blockHashOfTx, t)}

(***************************************************************************)
(* CheckStakeKernelHash                                                    *)
(***************************************************************************)
\* posLimit of the consensus parameters: 20 leading zero bits
PosLimit == ArithOnes(256 - PreShift)

\* hashTarget.SetCompact(GetNextTargetRequired(Tip(), true), &fNegative, &fOverflow):
\* target names the compact value by the number of significant bits of the
\* decoded target (all of them set) and the two flags of the decoding
HashTargetOf(target) == ArithOnes(target.bits)

\* the value of hashProofOfStake the caller holds before the call
CallerHash == Null256

\* variant: the minimum age itself is rejected
MinAgeViolatedInclusive(nTimeBlockFrom, nTimeTx) == nTimeBlockFrom + StakeMinAge >= nTimeTx

\* if (nTimeBlockFrom + getStakeMinAge() > nTimeTx)
MinAgeViolated(nTimeBlockFrom, nTimeTx) == nTimeBlockFrom + StakeMinAge > nTimeTx

\* variant: the target check starts at the fork height itself
TargetCheckAppliesInclusive(nHeight) == nHeight >= TargetForkHeight

\* if (nHeight > 1504350)
TargetCheckApplies(nHeight) == nHeight > TargetForkHeight

\* fNegative || hashTarget == 0 || fOverflow || hashTarget > posLimit
TargetInvalid(target) ==
    \/ target.fNegative
    \/ HashTargetOf(target) = ArithZero
    \/ target.fOverflow
    \/ ArithGreater(HashTargetOf(target), PosLimit)

\* variant: a rendering without leading zeros
GetHexStripped(a) ==
    LET full == GetHex(a)
        lead == Cardinality({j \in 1..HexWidth : \A k \in 1..j : full[k] = "0"})
    IN  IF lead = HexWidth THEN <<"0">> ELSE SubSeq(full, lead + 1, HexWidth)

\* reductionHex = reduction.GetHex()
ReductionHex(reduction) == GetHex(reduction)

\* n = std::count(reductionHex.begin(), reductionHex.end(), '0'); redux = 64 - n
Redux(reduction) == HexWidth - CountChar(ReductionHex(reduction), "0")

\* ss << nStakeModifier; ss << nTimeBlockFrom << nTxPrevOffset << txPrev.nTime
\*    << prevout.n << nTimeTx
KernelStream(nStakeModifier, nTimeBlockFrom, nTxPrevOffset, nTimePrev, n, nTimeTx) ==
    nStakeModifier \o SerU32(nTimeBlockFrom) \o SerU32(nTxPrevOffset)
    \o SerU32(nTimePrev) \o SerU32(n) \o SerU32(nTimeTx)

\* The possible outcomes of CheckStakeKernelHash(nHeight, blockFrom,
\* nTxPrevOffset, txPrev, prevout, nTimeTx, hashProofOfStake) with the active
\* tip at height t, when the difficulty provider reports target for the tip.
CheckStakeKernelHash(nHeight, blockFrom, nTxPrevOffset, txPrev, prevout, nTimeTx, target, t) ==
    LET nTimeBlockFrom == blockFrom.nTime
        nValueIn == txPrev.vout[prevout.n + 1]
        nTimeWeight == (nTimeTx - txPrev.nTime) - StakeMinAge
        base == [returned |-> TRUE, ok |-> FALSE, err |-> "None",
                 hashProofOfStake |-> CallerHash, nStakeModifier |-> Null256,
                 computed |-> FALSE, compared |-> FALSE, reduction |-> 0, redux |-> 0]
        After(m) ==
            LET hashProofOfStake ==
                    Hash(KernelStream(m.nStakeModifier, nTimeBlockFrom, nTxPrevOffset,
                                      txPrev.nTime, prevout.n, nTimeTx))
                hashed == [base EXCEPT !.hashProofOfStake = hashProofOfStake,
                                       !.nStakeModifier = m.nStakeModifier,
                                       !.computed = TRUE]
                reduction == nTimeWeight * nValueIn
                redux == Redux(ArithFromInt(reduction))
                shifted == ShiftRight(ShiftRight(UintToArith256(hashProofOfStake), PreShift), redux)
            IN  IF ~TargetCheckApplies(nHeight)
                THEN [hashed EXCEPT !.ok = TRUE]
                ELSE IF TargetInvalid(target)
                THEN [hashed EXCEPT !.err = "InvalidTarget", !.reduction = reduction]
                ELSE IF ArithGreater(shifted, HashTargetOf(target))
                THEN [hashed EXCEPT !.err = "TargetNotMet", !.compared = TRUE,
                                    !.reduction = reduction, !.redux = redux]
                ELSE [hashed EXCEPT !.ok = TRUE, !.compared = TRUE,
                                    !.reduction = reduction, !.redux = redux]
    IN  IF nTimeTx < txPrev.nTime
        THEN {[base EXCEPT !.err = "TimestampViolation"]}
        ELSE IF MinAgeViolated(nTimeBlockFrom, nTimeTx)
        THEN {[base EXCEPT !.err = "MinimumAgeViolation"]}
        ELSE IF nTimeWeight <= 0
        THEN {[base EXCEPT !.err = "NonPositiveWeight"]}
        ELSE {IF ~m.returned
              THEN [base EXCEPT !.returned = FALSE, !.err = m.err]
              ELSE IF ~m.ok
              THEN [base EXCEPT !.err = "ModifierUnavailable"]
              ELSE After(m)
              : m \in GetKernelStakeModifier(blockFrom.hash, t)}

(***************************************************************************)
(* CheckProofOfStake                                                       *)
(***************************************************************************)
\* variant: the correction ends at the target fork height
OffsetCorrectionAtTargetFork(nHeight, nTxOffset) ==
    IF nHeight < TargetForkHeight THEN nTxOffset + HeaderOffset ELSE nTxOffset

\* if (nHeight < 1505775) txindex.nTxOffset + 80 else txindex.nTxOffset
OffsetCorrection(nHeight, nTxOffset) ==
    IF nHeight < OffsetForkHeight THEN nTxOffset + HeaderOffset ELSE nTxOffset

\* The possible outcomes of CheckProofOfStake(nHeight, tx, hashProofOfStake).
\* tx carries, next to its own fields (kind, nTime, prevout), what the
\* collaborators report for it: found and txPrev and blockHashOfTx
\* (GetTransaction), sigOk (VerifySignature), readOk and blockTime
\* (ReadBlockFromDisk), nTxOffset (ReadTxIndex).
CheckProofOfStake(nHeight, tx, target, t) ==
    LET base == [returned |-> TRUE, ok |-> FALSE, err |-> "None",
                 hashProofOfStake |-> CallerHash, called |-> FALSE]
        block == [hash |-> tx.blockHashOfTx, nTime |-> tx.blockTime]
        passed == [nHeight |-> nHeight, blockFrom |-> block,
                   nTxPrevOffset |-> OffsetCorrection(nHeight, tx.nTxOffset),
                   txPrev |-> tx.txPrev, prevout |-> tx.prevout, nTimeTx |-> tx.nTime]
    IN  IF tx.kind # "coinstake"
        THEN {[base EXCEPT !.err = "NotCoinstake"]}
        ELSE IF ~tx.found
        THEN {[base EXCEPT !.err = "PrevTxNotFound"]}
        ELSE IF ~tx.sigOk
        THEN {[base EXCEPT !.err = "SignatureInvalid"]}
        ELSE IF ~tx.readOk
        THEN {[base EXCEPT !.err = "ReadBlockFailed"]}
        ELSE {[returned |-> k.returned, ok |-> k.ok,
               err |-> IF k.ok THEN "None"
                       ELSE IF k.returned THEN "KernelCheckFailed" ELSE k.err,
               hashProofOfStake |-> k.hashProofOfStake, called |-> TRUE,
               passed |-> passed, k |-> k]
              : k \in CheckStakeKernelHash(passed.nHeight, passed.blockFrom,
                                           passed.nTxPrevOffset, passed.txPrev,
                                           passed.prevout, passed.nTimeTx, target, t)}

(***************************************************************************)
(* State machine.                                                          *)
(***************************************************************************)
Idle == [op |-> "idle"]

NoCall == [op |-> "none"]

\* block hashes a caller may present when the tip is at height t
RefHashes(t) ==
    {ActiveIndex(h) : h \in {0, 1, 2, t - LongLookahead - 1, t - LongLookahead,
                             t - LongLookahead + 1, t - ShortLookahead - 1,
                             t - ShortLookahead, t - ShortLookahead + 1, t - 1, t, t + 1}
                            \cap 0..(t + 1)}
    \cup {SideIndex(t), UnindexedHash}

LowWindow(t) == t < MaxLowAppend

ForkWindow(t) ==
    /\ t >= LookaheadForkHeight - ForkMargin
    /\ t < LookaheadForkHeight + ForkMargin

Init ==
    /\ tip \in {0, LookaheadForkHeight - ForkMargin}
    /\ ret = Idle
    /\ first = NoCall

\* a block is connected on top of the active tip
AppendBlock ==
    /\ ret = Idle
    /\ LowWindow(tip) \/ ForkWindow(tip)
    /\ tip' = tip + 1
    /\ UNCHANGED <<ret, first>>

CallGetKernelStakeModifier ==
    /\ ret = Idle
    /\ \E hashBlockFrom \in RefHashes(tip) :
         \E r \in GetKernelStakeModifier(hashBlockFrom, tip) :
            ret' = [op |-> "GetKernelStakeModifier", hashBlockFrom |-> hashBlockFrom, r |-> r]
    /\ UNCHANGED <<tip, first>>

\* the previous index entries a caller may pass when the tip is at height t
PrevIndexes(t) == {NullIndex} \cup {ActiveIndex(h) : h \in {0, 1, 2, 3, t} \cap 0..t}

\* the transactions a caller may pass when the tip is at height t
Transactions(t) ==
    {NullTx, CoinBaseTx, CoinStakeTx(FALSE, UnindexedHash, FALSE)}
    \cup {CoinStakeTx(TRUE, ActiveIndex(h), ok) :
             h \in {0, t - LongLookahead, t - ShortLookahead, t} \cap 0..t, ok \in BOOLEAN}

CallComputeNextStakeModifier ==
    /\ ret = Idle
    /\ \E pindexPrev \in PrevIndexes(tip), tx \in Transactions(tip) :
         \E r \in ComputeNextStakeModifier(pindexPrev, tx, tip) :
            ret' = [op |-> "ComputeNextStakeModifier", pindexPrev |-> pindexPrev,
                    tx |-> tx, r |-> r]
    /\ UNCHANGED <<tip, first>>

\* what the difficulty provider and SetCompact may report for the tip
Targets ==
    {[bits |-> 236, fNegative |-> FALSE, fOverflow |-> FALSE],
     [bits |-> 234, fNegative |-> FALSE, fOverflow |-> FALSE],
     [bits |-> 1, fNegative |-> FALSE, fOverflow |-> FALSE],
     [bits |-> 0, fNegative |-> FALSE, fOverflow |-> FALSE],
     [bits |-> 237, fNegative |-> FALSE, fOverflow |-> FALSE],
     [bits |-> 200, fNegative |-> TRUE, fOverflow |-> FALSE],
     [bits |-> 200, fNegative |-> FALSE, fOverflow |-> TRUE]}

\* the blocks a kernel may come from when the tip is at height t
KernelBlocks(t) ==
    {ActiveIndex(h) : h \in {t - LongLookahead, t - ShortLookahead, t - ShortLookahead + 1}
                            \cap 0..t}
    \cup {UnindexedHash}

\* (block time, previous transaction time): a block is never older than
\* the transactions it contains
KernelTimes == {<<10, 10>>, <<12, 10>>}

CandidateTimes == {9, 11, 14, 15, 16, 17, 18}

StakedValues == {0, 1, 17}

CallCheckStakeKernelHash ==
    /\ ret = Idle
    /\ \E nHeight \in {TargetForkHeight, TargetForkHeight + 1},
          hash \in KernelBlocks(tip), times \in KernelTimes,
          nTimeTx \in CandidateTimes, nValue \in StakedValues, target \in Targets :
         LET blockFrom == [hash |-> hash, nTime |-> times[1]]
             txPrev == [nTime |-> times[2], vout |-> <<nValue>>]
             prevout == [n |-> 0]
         IN  \E r \in CheckStakeKernelHash(nHeight, blockFrom, 81, txPrev, prevout,
                                            nTimeTx, target, tip) :
                ret' = [op |-> "CheckStakeKernelHash", nHeight |-> nHeight,
                        blockFrom |-> blockFrom, nTxPrevOffset |-> 81, txPrev |-> txPrev,
                        prevout |-> prevout, nTimeTx |-> nTimeTx, target |-> target,
                        r |-> r]
    /\ UNCHANGED <<tip, first>>

\* the coinstake candidates a caller may pass when the tip is at height t
StakeTransactions(t) ==
    LET full(kind, found, sigOk, readOk, hash, nTxOffset, nTime) ==
            [kind |-> kind, nTime |-> nTime, prevout |-> [n |-> 1],
             found |-> found, txPrev |-> [nTime |-> 10, vout |-> <<3, 17>>],
             blockHashOfTx |-> hash, blockTime |-> 12, sigOk |-> sigOk,
             readOk |-> readOk, nTxOffset |-> nTxOffset]
    IN  {full("coinbase", TRUE, TRUE, TRUE, ActiveIndex(0), 0, 18),
         full("coinstake", FALSE, TRUE, TRUE, ActiveIndex(0), 0, 18),
         full("coinstake", TRUE, FALSE, TRUE, ActiveIndex(0), 0, 18),
         full("coinstake", TRUE, TRUE, FALSE, ActiveIndex(0), 0, 18)}
        \cup {full("coinstake", TRUE, TRUE, TRUE, ActiveIndex(h), off, nTime) :
                 h \in {t - LongLookahead, t - ShortLookahead} \cap 0..t,
                 off \in {0, 81}, nTime \in {16, 18}}

CallCheckProofOfStake ==
    /\ ret = Idle
    /\ \E nHeight \in {TargetForkHeight, TargetForkHeight + 1,
                        OffsetForkHeight - 1, OffsetForkHeight},
          tx \in StakeTransactions(tip),
          target \in {[bits |-> 236, fNegative |-> FALSE, fOverflow |-> FALSE],
                      [bits |-> 1, fNegative |-> FALSE, fOverflow |-> FALSE]} :
         \E r \in CheckProofOfStake(nHeight, tx, target, tip) :
            ret' = [op |-> "CheckProofOfStake", nHeight |-> nHeight, tx |-> tx,
                    target |-> target, r |-> r]
    /\ UNCHANGED <<tip, first>>

\* the caller takes the result; the validation thread is free again
Return ==
    /\ ret # Idle
    /\ ret' = Idle
    /\ UNCHANGED <<tip, first>>

Next ==
    \/ AppendBlock
    \/ CallGetKernelStakeModifier
    \/ CallComputeNextStakeModifier
    \/ CallCheckStakeKernelHash
    \/ CallCheckProofOfStake
    \/ Return

Spec == Init /\ [][Next]_vars

(***************************************************************************)
(* Re-validation: the same kernel is checked again while the chain grows.  *)
(* first keeps the first call that computed a hash.                        *)
(***************************************************************************)
RevalInit ==
    /\ tip = LookaheadForkHeight - 1
    /\ ret = Idle
    /\ first = NoCall

RevalAppendBlock ==
    /\ ret = Idle
    /\ tip < LookaheadForkHeight - 1 + MaxRevalAppend
    /\ tip' = tip + 1
    /\ UNCHANGED <<ret, first>>

RevalCheckStakeKernelHash ==
    /\ ret = Idle
    /\ \E nHeight \in {TargetForkHeight, TargetForkHeight + 1},
          nTimeTx \in {18, 19}, nValue \in {1, 17},
          target \in {[bits |-> 236, fNegative |-> FALSE, fOverflow |-> FALSE]} :
         LET blockFrom == [hash |-> ActiveIndex(LookaheadForkHeight - 1 - ShortLookahead),
                           nTime |-> 12]
             txPrev == [nTime |-> 10, vout |-> <<nValue>>]
             prevout == [n |-> 0]
         IN  \E r \in CheckStakeKernelHash(nHeight, blockFrom, 81, txPrev, prevout,
                                            nTimeTx, target, tip) :
                ret' = [op |-> "CheckStakeKernelHash", nHeight |-> nHeight,
                        blockFrom |-> blockFrom, nTxPrevOffset |-> 81, txPrev |-> txPrev,
                        prevout |-> prevout, nTimeTx |-> nTimeTx, target |-> target,
                        r |-> r]
    /\ UNCHANGED <<tip, first>>

RevalReturn ==
    /\ ret # Idle
    /\ first' = IF first = NoCall /\ ret.r.computed THEN ret ELSE first
    /\ ret' = Idle
    /\ UNCHANGED tip

RevalNext ==
    \/ RevalAppendBlock
    \/ RevalCheckStakeKernelHash
    \/ RevalReturn

SpecReval == RevalInit /\ [][RevalNext]_vars

(***************************************************************************)
(* Properties of GetKernelStakeModifier.                                   *)
(***************************************************************************)
InSelector == ret.op = "GetKernelStakeModifier"

\* the lookahead distance the tip height prescribes
Lookahead == IF tip < 1504350 THEN 5 ELSE 180

\* the number of blocks after the block of this hash on the active chain
Successors(hash) ==
    IF hash.chain = "active" /\ hash.nHeight <= tip THEN tip - hash.nHeight ELSE 0

Indexed(hash) ==
    \/ hash.chain = "active" /\ hash.nHeight <= tip
    \/ hash.chain = "side"

\* C1: whenever the Selector hashes, the block whose fields it hashes is the
\* one exactly L forward links after the reference block, with L = 5 when the
\* tip height is below 1504350 and L = 180 otherwise, whatever the height of
\* the reference block.
C1_LookaheadExact ==
    (InSelector /\ ret.r.hashed) =>
        /\ ret.hashBlockFrom.chain = "active"
        /\ ret.r.pindex = [chain |-> "active", nHeight |-> ret.hashBlockFrom.nHeight + Lookahead]
        /\ ret.r.returned /\ ret.r.ok
        /\ ret.r.nStakeModifier =
             Hash(nStakeModifierOf(ActiveIndex(ret.hashBlockFrom.nHeight + Lookahead))
                  \o hashProofOfStakeOf(ActiveIndex(ret.hashBlockFrom.nHeight + Lookahead))
                  \o nStakeModifierOf(ActiveIndex(ret.hashBlockFrom.nHeight + Lookahead - 1))
                  \o hashProofOfStakeOf(ActiveIndex(ret.hashBlockFrom.nHeight + Lookahead - 1))
                  \o nStakeModifierOf(ActiveIndex(ret.hashBlockFrom.nHeight + Lookahead - 2))
                  \o hashProofOfStakeOf(ActiveIndex(ret.hashBlockFrom.nHeight + Lookahead - 2)))

\* a Selector call that hashed at the fork height itself, 180 blocks ahead of
\* a reference block that is not genesis
C1_Witness ==
    /\ InSelector /\ ret.r.hashed
    /\ tip = 1504350
    /\ ret.hashBlockFrom.nHeight = tip - 180

\* C2: a reference block that is not indexed, or has fewer than L successors
\* on the active chain, makes the Selector fail with the null modifier; a
\* success never rests on a block fewer than L positions ahead.
C2_InsufficientDepthFails ==
    InSelector =>
        /\ (~Indexed(ret.hashBlockFrom) \/ Successors(ret.hashBlockFrom) < Lookahead)
              => (ret.r.returned /\ ~ret.r.ok /\ ret.r.nStakeModifier = Null256)
        /\ (ret.r.returned /\ ret.r.ok)
              => ret.r.pindex.nHeight - ret.hashBlockFrom.nHeight >= Lookahead

\* the reference block has exactly L-1 successors and the call failed
C2_Witness ==
    /\ InSelector
    /\ Indexed(ret.hashBlockFrom)
    /\ Successors(ret.hashBlockFrom) = Lookahead - 1
    /\ ~ret.r.ok

\* C9: whenever the Selector reaches the hashing step, the selected block has
\* a parent and a grandparent, so that no field of a missing ancestor is read.
C9_AncestorsExist ==
    (InSelector /\ ret.r.hashed) =>
        /\ ret.r.pindex.nHeight >= 2
        /\ pprev(ret.r.pindex) # NullIndex
        /\ pprev(pprev(ret.r.pindex)) # NullIndex
        /\ ret.r.err # "NullDereference"

\* the Selector hashed for the genesis block as reference
C9_Witness ==
    /\ InSelector /\ ret.r.hashed
    /\ ret.hashBlockFrom = [chain |-> "active", nHeight |-> 0]

(***************************************************************************)
(* Properties of ComputeNextStakeModifier.                                 *)
(***************************************************************************)
InUpdater == ret.op = "ComputeNextStakeModifier"

\* C7: for a coinbase and a present previous index the Updater succeeds; the
\* modifier is the hash of (modifier, proof-hash) of the previous index, its
\* parent and its grandparent, in that order, when both ancestors exist, and
\* null for the first three blocks of the chain.
C7_CoinbaseModifier ==
    (InUpdater /\ ret.tx.kind = "coinbase" /\ ret.pindexPrev # NullIndex) =>
        /\ ret.r.returned /\ ret.r.ok
        /\ ret.r.nStakeModifier =
             IF ret.pindexPrev.nHeight + 1 < 3 THEN Null256
             ELSE Hash(nStakeModifierOf(ret.pindexPrev)
                       \o hashProofOfStakeOf(ret.pindexPrev)
                       \o nStakeModifierOf(ActiveIndex(ret.pindexPrev.nHeight - 1))
                       \o hashProofOfStakeOf(ActiveIndex(ret.pindexPrev.nHeight - 1))
                       \o nStakeModifierOf(ActiveIndex(ret.pindexPrev.nHeight - 2))
                       \o hashProofOfStakeOf(ActiveIndex(ret.pindexPrev.nHeight - 2)))

\* the coinbase of the fourth block (genesis + 3) got a recomputed modifier
C7_Witness ==
    /\ InUpdater /\ ret.tx.kind = "coinbase"
    /\ ret.pindexPrev = [chain |-> "active", nHeight |-> 2]
    /\ ret.r.ok /\ ret.r.nStakeModifier # Null256

\* C8: the Updater returns a verdict in every case; it fails when exactly one
\* of "transaction is null" and "previous index is absent" holds, and a null
\* transaction with an absent previous index succeeds with the null modifier.
C8_GenesisStateError ==
    InUpdater =>
        /\ ret.r.returned
        /\ ((ret.tx.kind = "null") # (ret.pindexPrev = NullIndex)) => ~ret.r.ok
        /\ (ret.tx.kind = "null" /\ ret.pindexPrev = NullIndex)
              => (ret.r.ok /\ ret.r.nStakeModifier = Null256)
        /\ (ret.r.err = "InvalidGenesisState")
              => ((ret.tx.kind = "null") # (ret.pindexPrev = NullIndex))


(***************************************************************************)
(* Properties of CheckStakeKernelHash.                                     *)
(***************************************************************************)
InChecker == ret.op = "CheckStakeKernelHash"

TimeWeightOf(c) == (c.nTimeTx - c.txPrev.nTime) - StakeMinAge

\* the inputs of the call pass the timestamp, minimum-age, time-weight and
\* modifier steps
PassesEarlySteps(c) ==
    /\ c.nTimeTx >= c.txPrev.nTime
    /\ c.blockFrom.nTime + StakeMinAge <= c.nTimeTx
    /\ TimeWeightOf(c) > 0
    /\ Indexed(c.blockFrom.hash)
    /\ Successors(c.blockFrom.hash) >= Lookahead

\* the number of non-zero hexadecimal digits of n
RECURSIVE NonZeroHexDigits(_)
NonZeroHexDigits(n) ==
    IF n = 0 THEN 0
    ELSE (IF n % 16 = 0 THEN 0 ELSE 1) + NonZeroHexDigits(n \div 16)

\* the number of significant hexadecimal digits of n
RECURSIVE HexLength(_)
HexLength(n) == IF n = 0 THEN 0 ELSE 1 + HexLength(n \div 16)

\* the hash of (modifier, blockFrom time, offset, prevTx time, output index,
\* candidate time), the modifier being the one of the block L ahead
RawKernelHash(c) ==
    Hash(Hash(ModifierStream(ActiveIndex(c.blockFrom.hash.nHeight + Lookahead)))
         \o SerU32(c.blockFrom.nTime) \o SerU32(c.nTxPrevOffset)
         \o SerU32(c.txPrev.nTime) \o SerU32(c.prevout.n) \o SerU32(c.nTimeTx))

\* the hash as it is compared with the target
ShiftedKernelHash(c) ==
    ShiftRight(UintToArith256(RawKernelHash(c)),
               20 + NonZeroHexDigits(TimeWeightOf(c) * c.txPrev.vout[c.prevout.n + 1]))

ValidTarget(target) ==
    /\ ~target.fNegative
    /\ ~target.fOverflow
    /\ target.bits > 0
    /\ target.bits <= 236

\* C3: for inputs that pass the early steps, a call at a height up to 1504350
\* succeeds whatever the target and the staked value are, a call at a height
\* from 1504351 on succeeds only with a valid target and a shifted hash not
\* above it, and in both cases the hash written back is the unshifted one.
C3_TargetForkBoundary ==
    (InChecker /\ PassesEarlySteps(ret)) =>
        /\ ret.r.returned
        /\ ret.nHeight <= 1504350 => ret.r.ok
        /\ (ret.nHeight >= 1504351 /\ ret.r.ok) =>
              /\ ValidTarget(ret.target)
              /\ ~ArithGreater(ShiftedKernelHash(ret), ArithOnes(ret.target.bits))
        /\ ret.r.hashProofOfStake = RawKernelHash(ret)

\* a call at height 1504350 succeeded although the target is invalid
C3_Witness ==
    /\ InChecker /\ PassesEarlySteps(ret)
    /\ ret.nHeight = 1504350
    /\ ~ValidTarget(ret.target)
    /\ ret.r.ok

AgeErrors == {"MinimumAgeViolation", "TimestampViolation"}

\* C5 as stated: a candidate time below prevTx time + stakeMinAge is rejected
\* with one of the two age errors, a candidate time above it with a positive
\* time weight is never rejected with one of them.
C5_AgeGateOnPrevTx ==
    InChecker =>
        /\ ret.nTimeTx < ret.txPrev.nTime + StakeMinAge
              => (~ret.r.ok /\ ret.r.err \in AgeErrors)
        /\ (ret.nTimeTx > ret.txPrev.nTime + StakeMinAge /\ TimeWeightOf(ret) > 0)
              => ret.r.err \notin AgeErrors

\* C5 (amended): a candidate time below blockFrom time + stakeMinAge is
\* rejected with one of the two age errors, a candidate time at or above it
\* with a positive time weight is never rejected with one of them.
C5_AgeGateOnBlockFrom ==
    InChecker =>
        /\ ret.nTimeTx < ret.blockFrom.nTime + StakeMinAge
              => (ret.r.returned /\ ~ret.r.ok /\ ret.r.err \in AgeErrors)
        /\ (ret.nTimeTx >= ret.blockFrom.nTime + StakeMinAge /\ TimeWeightOf(ret) > 0)
              => ret.r.err \notin AgeErrors

\* a candidate time between the two bounds was rejected for its age
C5_Witness ==
    /\ InChecker
    /\ ret.nTimeTx > ret.txPrev.nTime + StakeMinAge
    /\ ret.nTimeTx < ret.blockFrom.nTime + StakeMinAge
    /\ ret.r.err = "MinimumAgeViolation"

(***************************************************************************)
(* Properties of CheckProofOfStake.                                        *)
(***************************************************************************)
InValidator == ret.op = "CheckProofOfStake"

\* C4: the offset passed to the kernel check is the transaction-index offset
\* plus 80 below height 1505775 and the offset itself from there on; the
\* other arguments are passed unchanged.
C4_OffsetForkBoundary ==
    (InValidator /\ ret.r.called) =>
        /\ ret.r.passed.nTxPrevOffset =
              IF ret.nHeight < 1505775 THEN ret.tx.nTxOffset + 80 ELSE ret.tx.nTxOffset
        /\ ret.r.passed.nHeight = ret.nHeight
        /\ ret.r.passed.blockFrom = [hash |-> ret.tx.blockHashOfTx, nTime |-> ret.tx.blockTime]
        /\ ret.r.passed.txPrev = ret.tx.txPrev
        /\ ret.r.passed.prevout = ret.tx.prevout
        /\ ret.r.passed.nTimeTx = ret.tx.nTime
        /\ ret.r.k.computed =>
              ret.r.hashProofOfStake =
                 Hash(KernelStream(ret.r.k.nStakeModifier, ret.tx.blockTime,
                                   IF ret.nHeight < 1505775 THEN ret.tx.nTxOffset + 80
                                   ELSE ret.tx.nTxOffset,
                                   ret.tx.txPrev.nTime, ret.tx.prevout.n, ret.tx.nTime))

\* a kernel hash was computed at height 1505774, past the 1504350 boundary
C4_Witness ==
    /\ InValidator /\ ret.r.called
    /\ ret.nHeight = 1505774
    /\ ret.r.k.computed
    /\ ret.r.passed.nTxPrevOffset = ret.tx.nTxOffset + 80

(***************************************************************************)
(* Properties of re-validation.                                            *)
(***************************************************************************)
SameTuple(a, b) ==
    /\ a.nHeight = b.nHeight
    /\ a.blockFrom = b.blockFrom
    /\ a.nTxPrevOffset = b.nTxPrevOffset
    /\ a.txPrev = b.txPrev
    /\ a.prevout = b.prevout
    /\ a.nTimeTx = b.nTimeTx

\* C6: two calls for the same tuple that both compute a hash compute the
\* same hash, also when blocks were appended between them.
C6_SameTupleSameHash ==
    (InChecker /\ first # NoCall /\ ret.r.computed /\ SameTuple(first, ret))
        => ret.r.hashProofOfStake = first.r.hashProofOfStake

ReachedShift(c) == c.r.computed /\ c.r.compared

====
